---- MODULE Spec2Model ----
(***************************************************************************)
(* Model of the streaming z-score anomaly detector (helper.py,            *)
(* class AnomalyDetectionZscore) and of the generic-sensor ingestion      *)
(* handler that drives it (app_fastapi.py, sensor_data).                  *)
(*                                                                         *)
(* Numbers.  Sensor readings are integers.  Every quantity the code       *)
(* rounds to three decimals (model_avg, z_score, anomaly_ratio) and the   *)
(* threshold are held in thousandths: 2.0 is 2000, 0.001 is 1.            *)
(* model_std_dev is an unrounded square root; it is held as the pair      *)
(* <<num, den>> standing for sqrt(num / den).                             *)
(***************************************************************************)
EXTENDS Integers, Sequences, FiniteSets, TLC

\* ---------------------------------------------------------------- bounds
MaxModelSize == 3
MaxAnomalyListSize == 2
MaxEvents == 5
MaxTasks == 2

\* readings offered to the detector, and the thresholds (in thousandths)
\* the environment or a caller may configure
Values == {-2, 0, 1}
\* readings posted to the ingestion endpoint
SensorValues == {-2, 0, 1, 10}
Thresholds == {0, 2000, -1000}
\* readings and thresholds of a caller whose input changes level: 10 is far
\* from 0 and 1 under the threshold 2.0, and under the threshold 1000.0 the
\* readings 0 and 1 are within 0.001 * threshold of each other
LevelValues == {0, 1, 10}
LevelThresholds == {2000, 1000000}
\* one sensor listed in analytics_generic_sensors.json, one that is not
ConfiguredSensors == {"g"}
SensorNames == {"g", "x"}
\* one sensor listed in analytics_vibration_sensors.json, one that is not
VibrationSensors == {"v"}
VibrationNames == {"v", "x"}
\* axis readings posted to the vibration endpoint: triples whose sum of
\* squares is a perfect square, so that the total rms is a whole number
Axes == { <<0, 0, 0>>, <<3, 4, 0>> }
\* readings posted when both endpoints are in use
IngestValues == {0, 10}
\* requests the server has in flight at the same time
TaskIds == 1..MaxTasks

\* ------------------------------------------------------------ arithmetic
Abs(x) == IF x < 0 THEN -x ELSE x

RECURSIVE SeqSum(_)
SeqSum(s) == IF s = <<>> THEN 0 ELSE Head(s) + SeqSum(Tail(s))

RECURSIVE SeqSumSq(_)
SeqSumSq(s) == IF s = <<>> THEN 0 ELSE Head(s) * Head(s) + SeqSumSq(Tail(s))

\* round(a / b) for a >= 0, b > 0, to the nearest integer, ties to even
RoundDiv(a, b) ==
    LET q == a \div b
        r == a % b
    IN  IF 2 * r < b THEN q
        ELSE IF 2 * r > b THEN q + 1
        ELSE IF q % 2 = 0 THEN q ELSE q + 1

\* largest k in lo..hi with k * (k - 1) <= m   (lo satisfies it)
RECURSIVE SearchRoot(_, _, _)
SearchRoot(m, lo, hi) ==
    IF lo >= hi THEN lo
    ELSE LET mid == (lo + hi + 1) \div 2
         IN  IF mid * (mid - 1) <= m THEN SearchRoot(m, mid, hi)
                                     ELSE SearchRoot(m, lo, mid - 1)

\* nearest integer to sqrt(a / p), a >= 0, p > 0:
\* the largest k with (k - 1/2)^2 <= a / p
RoundSqrtDiv(a, p) ==
    LET c == (p + 3) \div 4
    IN  IF a < c THEN 0 ELSE SearchRoot((a - c) \div p, 1, 46340)

\* variant: the mean keeps its sign
MeanAbsMilli_Signed(data) ==
    IF SeqSum(data) < 0
    THEN - RoundDiv(1000 * Abs(SeqSum(data)), Len(data))
    ELSE RoundDiv(1000 * SeqSum(data), Len(data))

\* statistics.mean, then abs, then round(_, 3): thousandths
MeanAbsMilli(data) == RoundDiv(1000 * Abs(SeqSum(data)), Len(data))

\* statistics.stdev: sample variance as <<num, den>>,
\* (n * sum(x^2) - sum(x)^2) / (n * (n - 1))
StdevSq(data) ==
    LET n == Len(data)
        s == SeqSum(data)
    IN  << n * SeqSumSq(data) - s * s, n * (n - 1) >>

\* variant: the value enters with its sign
ZScoreMilli_Signed(value, avg, sd) ==
    LET dm == 1000 * value - avg
    IN  IF sd = <<1, 1000000>> THEN 1000 * dm
        ELSE LET k == RoundSqrtDiv(dm * dm * sd[2], sd[1])
             IN  IF dm < 0 THEN -k ELSE k

\* round((abs(value) - avg) / std_dev, 3) in thousandths;
\* avg in thousandths, std_dev = sqrt(sd[1] / sd[2])
ZScoreMilli(value, avg, sd) ==
    LET dm == 1000 * Abs(value) - avg
    IN  IF sd = <<1, 1000000>> THEN 1000 * dm
        ELSE LET k == RoundSqrtDiv(dm * dm * sd[2], sd[1])
             IN  IF dm < 0 THEN -k ELSE k

\* ----------------------------------------------- AnomalyDetectionZscore
NewDetector(name, model_size, anomaly_list_size) ==
    [ model_data        |-> <<>>,
      model_size        |-> model_size,
      anomaly_list      |-> <<>>,
      anomaly_list_size |-> anomaly_list_size,
      anomaly_ratio     |-> 0,
      anomaly           |-> 0,
      model_avg         |-> 0,
      model_std_dev     |-> <<0, 1>>,
      z_score           |-> 0,
      z_score_thresh    |-> 0,
      name              |-> name ]

\* the result of a call: the object afterwards and the exception, if any,
\* that leaves the call
Ok(d) == [d |-> d, raised |-> "none"]
Raise(d, e) == [d |-> d, raised |-> e]

\* z_score_thresh setter.  The module helper.py binds no name `logger`
\* (the constructor stores its argument as self._logger), so the logging
\* call of the zero branch raises NameError before the assignment.
z_score_thresh_setter(d, z_score_threshold) ==
    IF z_score_threshold = 0
    THEN Raise(d, "NameError")
    ELSE Ok([d EXCEPT !.z_score_thresh = z_score_threshold])

\* variant: the threshold goes back to its constructor value as well
reset_algorithm_ClearsThreshold(d) ==
    Ok([d EXCEPT !.model_data = <<>>,
                 !.anomaly_list = <<>>,
                 !.anomaly_ratio = 0,
                 !.anomaly = 0,
                 !.model_avg = 0,
                 !.model_std_dev = <<0, 1>>,
                 !.z_score = 0,
                 !.z_score_thresh = 0])

\* variant: the anomaly flag and its window survive
reset_algorithm_KeepsFlags(d) ==
    Ok([d EXCEPT !.model_data = <<>>,
                 !.anomaly_ratio = 0,
                 !.model_avg = 0,
                 !.model_std_dev = <<0, 1>>,
                 !.z_score = 0])

reset_algorithm(d) ==
    Ok([d EXCEPT !.model_data = <<>>,
                 !.anomaly_list = <<>>,
                 !.anomaly_ratio = 0,
                 !.anomaly = 0,
                 !.model_avg = 0,
                 !.model_std_dev = <<0, 1>>,
                 !.z_score = 0])

is_model_complete(d) == Len(d.model_data) = d.model_size

\* variant: the full branch appends without evicting the oldest flag
calculate_anomaly_ratio_NoEvict(d) ==
    IF is_model_complete(d)
    THEN IF Len(d.anomaly_list) < d.anomaly_list_size
         THEN Ok([d EXCEPT !.anomaly_list = Append(@, d.anomaly)])
         ELSE LET l == Append(d.anomaly_list, d.anomaly)
              IN  Ok([d EXCEPT !.anomaly_list = l,
                               !.anomaly_ratio =
                                   RoundDiv(1000 * SeqSum(l), d.anomaly_list_size)])
    ELSE Ok(d)

\* variant: the ratio is recomputed as soon as the append fills the window
calculate_anomaly_ratio_Eager(d) ==
    IF is_model_complete(d)
    THEN LET l == IF Len(d.anomaly_list) < d.anomaly_list_size
                  THEN Append(d.anomaly_list, d.anomaly)
                  ELSE Append(Tail(d.anomaly_list), d.anomaly)
         IN  IF Len(l) = d.anomaly_list_size
             THEN Ok([d EXCEPT !.anomaly_list = l,
                               !.anomaly_ratio =
                                   RoundDiv(1000 * SeqSum(l), d.anomaly_list_size)])
             ELSE Ok([d EXCEPT !.anomaly_list = l])
    ELSE Ok(d)

\* variant: the ratio is taken from the window before the new flag enters
calculate_anomaly_ratio_RatioFirst(d) ==
    IF is_model_complete(d)
    THEN IF Len(d.anomaly_list) < d.anomaly_list_size
         THEN Ok([d EXCEPT !.anomaly_list = Append(@, d.anomaly)])
         ELSE Ok([d EXCEPT !.anomaly_list = Append(Tail(@), d.anomaly),
                           !.anomaly_ratio =
                               RoundDiv(1000 * SeqSum(d.anomaly_list),
                                        d.anomaly_list_size)])
    ELSE Ok(d)

\* variant: no test of the baseline before a flag is recorded
calculate_anomaly_ratio_NoGuard(d) ==
    IF Len(d.anomaly_list) < d.anomaly_list_size
    THEN Ok([d EXCEPT !.anomaly_list = Append(@, d.anomaly)])
    ELSE LET l == Append(Tail(d.anomaly_list), d.anomaly)
         IN  Ok([d EXCEPT !.anomaly_list = l,
                          !.anomaly_ratio =
                              RoundDiv(1000 * SeqSum(l), d.anomaly_list_size)])

\* variant: the sum of the flags is divided by the size of the baseline
calculate_anomaly_ratio_ByModelSize(d) ==
    IF is_model_complete(d)
    THEN IF Len(d.anomaly_list) < d.anomaly_list_size
         THEN Ok([d EXCEPT !.anomaly_list = Append(@, d.anomaly)])
         ELSE IF d.anomaly_list = <<>>
         THEN Raise(d, "NameError")
         ELSE LET l == Append(Tail(d.anomaly_list), d.anomaly)
              IN  Ok([d EXCEPT !.anomaly_list = l,
                               !.anomaly_ratio =
                                   RoundDiv(1000 * SeqSum(l), d.model_size)])
    ELSE Ok(d)

calculate_anomaly_ratio(d) ==
    IF is_model_complete(d)
    THEN IF Len(d.anomaly_list) < d.anomaly_list_size
         THEN Ok([d EXCEPT !.anomaly_list = Append(@, d.anomaly)])
         ELSE IF d.anomaly_list = <<>>
         THEN \* pop(0) from an empty list: IndexError, and the handler's
              \* logger.error raises NameError
              Raise(d, "NameError")
         ELSE LET l == Append(Tail(d.anomaly_list), d.anomaly)
              IN  Ok([d EXCEPT !.anomaly_list = l,
                               !.anomaly_ratio =
                                   RoundDiv(1000 * SeqSum(l), d.anomaly_list_size)])
    ELSE Ok(d)

\* variant: a value within the threshold is appended without evicting
Classify_NoEvict(d, value) ==
    IF Abs(d.z_score) > d.z_score_thresh
    THEN [d EXCEPT !.anomaly = 1]
    ELSE [d EXCEPT !.model_data = Append(@, value), !.anomaly = 0]

\* variant: a value within the threshold enters at the head of the window
Classify_Prepend(d, value) ==
    IF Abs(d.z_score) > d.z_score_thresh
    THEN [d EXCEPT !.anomaly = 1]
    ELSE [d EXCEPT !.model_data = <<value>> \o SubSeq(@, 1, Len(@) - 1),
                   !.anomaly = 0]

\* variant: a value beyond the threshold is admitted as well
Classify_AdmitAnomaly(d, value) ==
    IF Abs(d.z_score) > d.z_score_thresh
    THEN [d EXCEPT !.model_data = Append(Tail(@), value), !.anomaly = 1]
    ELSE [d EXCEPT !.model_data = Append(Tail(@), value), !.anomaly = 0]

\* variant: a z-score equal to the threshold counts as beyond it
Classify_AtThreshold(d, value) ==
    IF Abs(d.z_score) >= d.z_score_thresh
    THEN [d EXCEPT !.anomaly = 1]
    ELSE [d EXCEPT !.model_data = Append(Tail(@), value), !.anomaly = 0]

\* the threshold test and the moving window, on an object whose z_score is
\* already that of `value`
Classify(d, value) ==
    IF Abs(d.z_score) > d.z_score_thresh
    THEN [d EXCEPT !.anomaly = 1]
    ELSE [d EXCEPT !.model_data = Append(Tail(@), value), !.anomaly = 0]

\* variant: the mean is refreshed while the baseline is being built
check_if_anomaly_BuildStats(d, value) ==
    IF is_model_complete(d)
    THEN IF Len(d.model_data) = 0
         THEN Raise(d, "NameError")
         ELSE LET avg == MeanAbsMilli(d.model_data)
                  d1  == [d EXCEPT !.model_avg = avg]
              IN  IF Len(d.model_data) < 2
                  THEN Raise(d1, "NameError")
                  ELSE LET sq == StdevSq(d.model_data)
                           sd == IF sq[1] = 0 THEN <<1, 1000000>> ELSE sq
                           z  == ZScoreMilli(value, avg, sd)
                           d2 == [d1 EXCEPT !.model_std_dev = sd, !.z_score = z]
                       IN  Ok(Classify(d2, value))
    ELSE Ok([d EXCEPT !.model_data = Append(@, value),
                      !.model_avg = MeanAbsMilli(Append(d.model_data, value))])

check_if_anomaly(d, value) ==
    IF is_model_complete(d)
    THEN IF Len(d.model_data) = 0
         THEN \* statistics.mean of no data: StatisticsError, then NameError
              \* from the handler's logger.error
              Raise(d, "NameError")
         ELSE LET avg == MeanAbsMilli(d.model_data)
                  d1  == [d EXCEPT !.model_avg = avg]
              IN  IF Len(d.model_data) < 2
                  THEN \* statistics.stdev of one point: StatisticsError,
                       \* then NameError from the handler's logger.error
                       Raise(d1, "NameError")
                  ELSE LET sq == StdevSq(d.model_data)
                           sd == IF sq[1] = 0 THEN <<1, 1000000>> ELSE sq
                           z  == ZScoreMilli(value, avg, sd)
                           d2 == [d1 EXCEPT !.model_std_dev = sd, !.z_score = z]
                       IN  Ok(Classify(d2, value))
    ELSE Ok([d EXCEPT !.model_data = Append(@, value)])

\* ------------------------------------------------------------------ state
VARIABLES
    MODEL_WINDOW_SIZE,          \* env MODEL_WINDOW_SIZE
    ANOMALY_LIST_SIZE,          \* env ANOMALY_LIST_SIZE
    Z_SCORE_THRESHOLD,          \* env Z_SCORE_THRESHOLD, thousandths
    generic_analytics_objects,  \* sensor name -> detector object
    vibration_analytics_objects, \* sensor name -> detector object
    written,                    \* points the latest request passed to write_to_influx
    last,                       \* history: the latest call, its input and the object before it
    hist,                       \* history per detector: admission tags, activations
    stats,                      \* history: counters over the dispatched events
    tasks,                      \* request -> the handler coroutine serving it
    loop                        \* the coroutine the event loop is running, 0 if none

vars == << MODEL_WINDOW_SIZE, ANOMALY_LIST_SIZE, Z_SCORE_THRESHOLD,
           generic_analytics_objects, vibration_analytics_objects,
           written, last, hist, stats, tasks, loop >>

config == << MODEL_WINDOW_SIZE, ANOMALY_LIST_SIZE, Z_SCORE_THRESHOLD >>

generic_sensors_for_analytics == DOMAIN generic_analytics_objects
vibration_sensors_for_analytics == DOMAIN vibration_analytics_objects

\* a request slot with no request in it
NoTask == [pc |-> "idle", kind |-> "", name |-> "", arg |-> <<>>,
           entry |-> <<>>, point |-> <<>>]

\* ---------------------------------------------------------------- history
NoHist == [tags |-> <<>>, activations |-> 0, by |-> "none", fromLen |-> 0]

\* how the value of a check_if_anomaly call was judged: "unclassified" when
\* the call only built the baseline (or did not finish), else by the
\* comparison of the z-score with the threshold
TagOf(d0, res) ==
    IF Len(d0.model_data) # d0.model_size \/ res.raised # "none"
    THEN "unclassified"
    ELSE IF Abs(res.d.z_score) > res.d.z_score_thresh THEN "anomaly" ELSE "normal"

TagsAfter(tags, d0, res, value) ==
    LET w0 == d0.model_data
        w1 == res.d.model_data
        tag == TagOf(d0, res)
    IN  IF w1 = Append(w0, value) THEN Append(tags, tag)
        ELSE IF w1 = w0 /\ tag # "normal" THEN tags
        ELSE IF w0 # <<>> /\ w1 = Append(Tail(w0), value) THEN Append(Tail(tags), tag)
        ELSE IF w1 = w0 THEN tags
        ELSE [i \in 1..Len(w1) |-> "unknown"]

\* the history of one detector after the call `op` took it from d0 to res.d
Track(h, d0, res, op, value) ==
    LET d1 == res.d
        wasC == Len(d0.model_data) = d0.model_size
        isC == Len(d1.model_data) = d1.model_size
        became == ~wasC /\ isC
        tags == IF op = "check_if_anomaly" THEN TagsAfter(h.tags, d0, res, value)
                ELSE IF d1.model_data = d0.model_data THEN h.tags
                ELSE IF d1.model_data = <<>> THEN <<>>
                ELSE [i \in 1..Len(d1.model_data) |-> "unknown"]
    IN  IF op = "reset_algorithm"
        THEN [tags |-> tags, activations |-> IF isC THEN h.activations ELSE 0,
              by |-> IF isC THEN h.by ELSE "none",
              fromLen |-> IF isC THEN h.fromLen ELSE 0]
        ELSE [tags |-> tags,
              activations |-> IF became THEN h.activations + 1 ELSE h.activations,
              by |-> IF became THEN op ELSE h.by,
              fromLen |-> IF became THEN Len(d0.model_data) ELSE h.fromLen]

\* did the call classify its value: it ran on a complete baseline and finished
Classified(d0, res) ==
    Len(d0.model_data) = d0.model_size /\ res.raised = "none"

\* did calculate_anomaly_ratio put a flag into anomaly_list
FlagAppended(d0, res) ==
    LET l0 == d0.anomaly_list
        l1 == res.d.anomaly_list
    IN  \/ l1 = Append(l0, d0.anomaly)
        \/ l0 # <<>> /\ Len(l0) = d0.anomaly_list_size
                     /\ l1 = Append(Tail(l0), d0.anomaly)

\* --------------------------------------------------------------- init_app
Init ==
    /\ MODEL_WINDOW_SIZE \in 1..MaxModelSize
    /\ ANOMALY_LIST_SIZE \in 1..MaxAnomalyListSize
    /\ Z_SCORE_THRESHOLD \in Thresholds
    /\ generic_analytics_objects =
           [n \in ConfiguredSensors |->
               NewDetector(n, MODEL_WINDOW_SIZE, ANOMALY_LIST_SIZE)]
    /\ vibration_analytics_objects =
           [n \in VibrationSensors |->
               NewDetector(n, MODEL_WINDOW_SIZE, ANOMALY_LIST_SIZE)]
    /\ written = <<>>
    /\ last = [op |-> "init", name |-> "", arg |-> 0, raised |-> "none",
               pre |-> <<>>, ran |-> <<>>, classified |-> FALSE]
    /\ hist = [n \in ConfiguredSensors \cup VibrationSensors |-> NoHist]
    /\ stats = [events |-> 0, flags |-> 0, classified |-> 0]
    /\ tasks = [t \in TaskIds |-> NoTask]
    /\ loop = 0

\* ------------------------------------------------- calls on one detector
\* a caller assigns obj.z_score_thresh = t
SetThreshold(n, t) ==
    LET d0 == generic_analytics_objects[n]
        res == z_score_thresh_setter(d0, t)
    IN  /\ generic_analytics_objects' = [generic_analytics_objects EXCEPT ![n] = res.d]
        /\ hist' = [hist EXCEPT ![n] = Track(@, d0, res, "z_score_thresh", t)]
        /\ last' = [op |-> "z_score_thresh", name |-> n, arg |-> t,
                    raised |-> res.raised, pre |-> <<d0>>,
                    ran |-> <<"z_score_thresh">>, classified |-> FALSE]
        /\ UNCHANGED << config, vibration_analytics_objects, written, stats, tasks, loop >>

ResetAlgorithm(n) ==
    LET d0 == generic_analytics_objects[n]
        res == reset_algorithm(d0)
    IN  /\ generic_analytics_objects' = [generic_analytics_objects EXCEPT ![n] = res.d]
        /\ hist' = [hist EXCEPT ![n] = Track(@, d0, res, "reset_algorithm", 0)]
        /\ last' = [op |-> "reset_algorithm", name |-> n, arg |-> 0,
                    raised |-> res.raised, pre |-> <<d0>>,
                    ran |-> <<"reset_algorithm">>, classified |-> FALSE]
        /\ UNCHANGED << config, vibration_analytics_objects, written, stats, tasks, loop >>

CheckIfAnomaly(n, value) ==
    LET d0 == generic_analytics_objects[n]
        res == check_if_anomaly(d0, value)
    IN  /\ generic_analytics_objects' = [generic_analytics_objects EXCEPT ![n] = res.d]
        /\ hist' = [hist EXCEPT ![n] = Track(@, d0, res, "check_if_anomaly", value)]
        /\ last' = [op |-> "check_if_anomaly", name |-> n, arg |-> value,
                    raised |-> res.raised, pre |-> <<d0>>,
                    ran |-> <<"check_if_anomaly">>,
                    classified |-> Classified(d0, res)]
        /\ UNCHANGED << config, vibration_analytics_objects, written, stats, tasks, loop >>

CalculateAnomalyRatio(n) ==
    LET d0 == generic_analytics_objects[n]
        res == calculate_anomaly_ratio(d0)
    IN  /\ generic_analytics_objects' = [generic_analytics_objects EXCEPT ![n] = res.d]
        /\ hist' = [hist EXCEPT ![n] = Track(@, d0, res, "calculate_anomaly_ratio", 0)]
        /\ last' = [op |-> "calculate_anomaly_ratio", name |-> n, arg |-> 0,
                    raised |-> res.raised, pre |-> <<d0>>,
                    ran |-> <<"calculate_anomaly_ratio">>, classified |-> FALSE]
        /\ UNCHANGED << config, vibration_analytics_objects, written, stats, tasks, loop >>

\* ------------------------------------------------ POST /generic-sensor
\* round(float(x), 4) of a quantity held in thousandths: ten-thousandths
Round4(milli) == 10 * milli

AnalyticsPoint(n, value, d) ==
    [ measurement    |-> "SingleSensorAnalytics",
      sensor_name    |-> n,
      value          |-> Round4(1000 * value),
      anomaly        |-> d.anomaly,
      anomaly_ratio  |-> Round4(d.anomaly_ratio),
      model_avg      |-> Round4(d.model_avg),
      z_score        |-> Round4(d.z_score),
      z_score_thresh |-> Round4(d.z_score_thresh) ]

RawPoint(n, value) ==
    [ measurement |-> "GenericSensor",
      sensor_name |-> n,
      value       |-> Round4(1000 * value) ]

\* the three calls the handler makes on the sensor's detector, in order; an
\* exception leaving one of them leaves the handler (the calls sit in the
\* else part of its try statement), so the later calls and the write do
\* not happen
Dispatch(d0, h0, threshold, value) ==
    LET r1 == z_score_thresh_setter(d0, threshold)
        h1 == Track(h0, d0, r1, "z_score_thresh", threshold)
        r2 == check_if_anomaly(r1.d, value)
        h2 == Track(h1, r1.d, r2, "check_if_anomaly", value)
        r3 == calculate_anomaly_ratio(r2.d)
        h3 == Track(h2, r2.d, r3, "calculate_anomaly_ratio", 0)
    IN  IF r1.raised # "none"
        THEN [d |-> r1.d, h |-> h1, raised |-> r1.raised,
              ran |-> <<"z_score_thresh">>, classified |-> FALSE, flag |-> FALSE]
        ELSE IF r2.raised # "none"
        THEN [d |-> r2.d, h |-> h2, raised |-> r2.raised,
              ran |-> <<"z_score_thresh", "check_if_anomaly">>,
              classified |-> FALSE, flag |-> FALSE]
        ELSE [d |-> r3.d, h |-> h3, raised |-> r3.raised,
              ran |-> <<"z_score_thresh", "check_if_anomaly",
                        "calculate_anomaly_ratio">>,
              classified |-> Classified(r1.d, r2),
              flag |-> FlagAppended(r2.d, r3)]

sensor_data(n, value) ==
    /\ stats.events < MaxEvents
    /\ IF n \in generic_sensors_for_analytics
       THEN LET d0 == generic_analytics_objects[n]
                out == Dispatch(d0, hist[n], Z_SCORE_THRESHOLD, value)
            IN  /\ generic_analytics_objects' =
                       [generic_analytics_objects EXCEPT ![n] = out.d]
                /\ hist' = [hist EXCEPT ![n] = out.h]
                /\ written' = IF out.raised = "none"
                              THEN << AnalyticsPoint(n, value, out.d) >>
                              ELSE <<>>
                /\ last' = [op |-> "sensor_data", name |-> n, arg |-> value,
                            raised |-> out.raised, pre |-> <<d0>>,
                            ran |-> out.ran, classified |-> out.classified]
                /\ stats' = [events |-> stats.events + 1,
                             flags |-> stats.flags + (IF out.flag THEN 1 ELSE 0),
                             classified |-> stats.classified
                                            + (IF out.classified THEN 1 ELSE 0)]
       ELSE /\ written' = << RawPoint(n, value) >>
            /\ last' = [op |-> "sensor_data", name |-> n, arg |-> value,
                        raised |-> "none", pre |-> <<>>,
                        ran |-> <<>>, classified |-> FALSE]
            /\ stats' = [stats EXCEPT !.events = @ + 1]
            /\ UNCHANGED << generic_analytics_objects, hist >>
    /\ UNCHANGED << config, vibration_analytics_objects, tasks, loop >>

\* ---------------------------------------------- POST /vibration-sensor
\* round(float(math.sqrt(x ** 2 + y ** 2 + z ** 2)), 5): the nearest whole
\* number, which is the root itself for the triples of Axes
TotalRms(a) == RoundSqrtDiv(a[1] * a[1] + a[2] * a[2] + a[3] * a[3], 1)

VibrationPoint(n, a, d) ==
    [ measurement         |-> "VibSensor",
      sensor_name         |-> n,
      vib_accel_rms_x     |-> Round4(1000 * a[1]),
      vib_accel_rms_y     |-> Round4(1000 * a[2]),
      vib_accel_rms_z     |-> Round4(1000 * a[3]),
      vib_accel_rms_total |-> Round4(1000 * TotalRms(a)),
      anomaly             |-> d.anomaly,
      anomaly_ratio       |-> Round4(d.anomaly_ratio),
      model_avg           |-> Round4(d.model_avg),
      z_score             |-> Round4(d.z_score),
      z_score_thresh      |-> Round4(d.z_score_thresh) ]

\* variant: a sensor that is not listed gets its raw axes stored
UnlistedVibration_Raw(n, a) ==
    << [ measurement         |-> "VibSensor",
         sensor_name         |-> n,
         vib_accel_rms_x     |-> Round4(1000 * a[1]),
         vib_accel_rms_y     |-> Round4(1000 * a[2]),
         vib_accel_rms_z     |-> Round4(1000 * a[3]) ] >>

\* the points written for a sensor that is not listed: the if statement of
\* the handler has no else part
UnlistedVibration(n, a) == <<>>

vibration_sensor_data(n, a) ==
    /\ stats.events < MaxEvents
    /\ IF n \in vibration_sensors_for_analytics
       THEN LET d0 == vibration_analytics_objects[n]
                vib_total_rms == TotalRms(a)
                out == Dispatch(d0, hist[n], Z_SCORE_THRESHOLD, vib_total_rms)
            IN  /\ vibration_analytics_objects' =
                       [vibration_analytics_objects EXCEPT ![n] = out.d]
                /\ hist' = [hist EXCEPT ![n] = out.h]
                /\ written' = IF out.raised = "none"
                              THEN << VibrationPoint(n, a, out.d) >>
                              ELSE <<>>
                /\ last' = [op |-> "vibration_sensor_data", name |-> n,
                            arg |-> vib_total_rms,
                            raised |-> out.raised, pre |-> <<d0>>,
                            ran |-> out.ran, classified |-> out.classified]
                /\ stats' = [events |-> stats.events + 1,
                             flags |-> stats.flags + (IF out.flag THEN 1 ELSE 0),
                             classified |-> stats.classified
                                            + (IF out.classified THEN 1 ELSE 0)]
       ELSE /\ written' = UnlistedVibration(n, a)
            /\ last' = [op |-> "vibration_sensor_data", name |-> n,
                        arg |-> TotalRms(a),
                        raised |-> "none", pre |-> <<>>,
                        ran |-> <<>>, classified |-> FALSE]
            /\ stats' = [stats EXCEPT !.events = @ + 1]
            /\ UNCHANGED << vibration_analytics_objects, hist >>
    /\ UNCHANGED << config, generic_analytics_objects, tasks, loop >>

\* ------------------------------------- the handlers as coroutines
\* Uvicorn runs the application on one event loop, which runs one
\* coroutine at a time and changes coroutine only where the running one
\* awaits. A handler is followed through its program points: "json" (at
\* await request.json()), then for a listed sensor "thresh", "check",
\* "ratio" (before each of the three calls on the detector), "point"
\* (before the point is built from the detector's fields) and "write"
\* (before write_to_influx).

\* variant: the handler would also await between check_if_anomaly and
\* calculate_anomaly_ratio
Awaits_Mid == {"json", "ratio"}

\* the program points at which a handler is suspended in an await
Awaits == {"json"}

\* the program points from the first call on the detector to the write
Block == {"thresh", "check", "ratio", "point", "write"}

Registry(kind) ==
    IF kind = "generic" THEN generic_analytics_objects
    ELSE vibration_analytics_objects

\* the detector a request works on
Detector(k) == Registry(k.kind)[k.name]

\* the value a request hands to check_if_anomaly
ValueOf(k) == IF k.kind = "generic" THEN k.arg[1] ELSE TotalRms(k.arg)

\* the point a request builds from the detector d
PointOf(k, d) ==
    IF k.kind = "generic" THEN AnalyticsPoint(k.name, k.arg[1], d)
    ELSE VibrationPoint(k.name, k.arg, d)

\* coroutine t may take a step: it is the one running, or the loop is free
\* and picks it up where it awaits
Runs(t) == loop = t \/ (loop = 0 /\ tasks[t].pc \in Awaits)

\* coroutine t moves to program point pc with the fields given; the loop
\* is free again if it awaits there or has finished
Goto(t, k, pc) ==
    /\ tasks' = [tasks EXCEPT ![t] = IF pc = "idle" THEN NoTask
                                     ELSE [k EXCEPT !.pc = pc]]
    /\ loop' = IF pc \in Awaits \/ pc = "idle" THEN 0 ELSE t

\* the detector of request k becomes d
Store(k, d) ==
    IF k.kind = "generic"
    THEN /\ generic_analytics_objects' =
                [generic_analytics_objects EXCEPT ![k.name] = d]
         /\ UNCHANGED vibration_analytics_objects
    ELSE /\ vibration_analytics_objects' =
                [vibration_analytics_objects EXCEPT ![k.name] = d]
         /\ UNCHANGED generic_analytics_objects

\* a request arrives: its handler starts and awaits the body. The lowest
\* free slot serves it.
AcceptRequest(t, kind, n, arg) ==
    /\ stats.events < MaxEvents
    /\ loop = 0
    /\ tasks[t].pc = "idle"
    /\ \A u \in TaskIds : u < t => tasks[u].pc # "idle"
    /\ Goto(t, [NoTask EXCEPT !.kind = kind, !.name = n, !.arg = arg], "json")
    /\ stats' = [stats EXCEPT !.events = @ + 1]
    /\ UNCHANGED << config, generic_analytics_objects,
                    vibration_analytics_objects, written, last, hist >>

\* the body is there: the handler picks the fields and tests the sensor name
ResumeWithBody(t) ==
    LET k == tasks[t]
    IN  /\ k.pc = "json"
        /\ Runs(t)
        /\ IF k.name \in DOMAIN Registry(k.kind)
           THEN Goto(t, [k EXCEPT !.entry = << Detector(k) >>], "thresh")
           ELSE IF k.kind = "generic"
           THEN Goto(t, [k EXCEPT !.point = << RawPoint(k.name, k.arg[1]) >>], "write")
           ELSE Goto(t, k, "idle")
        /\ UNCHANGED << config, generic_analytics_objects,
                        vibration_analytics_objects, written, last, hist, stats >>

\* obj.z_score_thresh = Z_SCORE_THRESHOLD
StepThreshold(t) ==
    LET k == tasks[t]
        res == z_score_thresh_setter(Detector(k), Z_SCORE_THRESHOLD)
    IN  /\ k.pc = "thresh"
        /\ Runs(t)
        /\ Store(k, res.d)
        /\ Goto(t, k, IF res.raised = "none" THEN "check" ELSE "idle")
        /\ UNCHANGED << config, written, last, hist, stats >>

\* obj.check_if_anomaly(value)
StepCheck(t) ==
    LET k == tasks[t]
        res == check_if_anomaly(Detector(k), ValueOf(k))
    IN  /\ k.pc = "check"
        /\ Runs(t)
        /\ Store(k, res.d)
        /\ Goto(t, k, IF res.raised = "none" THEN "ratio" ELSE "idle")
        /\ UNCHANGED << config, written, last, hist, stats >>

\* obj.calculate_anomaly_ratio()
StepRatio(t) ==
    LET k == tasks[t]
        res == calculate_anomaly_ratio(Detector(k))
    IN  /\ k.pc = "ratio"
        /\ Runs(t)
        /\ Store(k, res.d)
        /\ Goto(t, k, IF res.raised = "none" THEN "point" ELSE "idle")
        /\ UNCHANGED << config, written, last, hist, stats >>

\* the point is built from the detector's fields
StepPoint(t) ==
    LET k == tasks[t]
    IN  /\ k.pc = "point"
        /\ Runs(t)
        /\ Goto(t, [k EXCEPT !.point = << PointOf(k, Detector(k)) >>], "write")
        /\ UNCHANGED << config, generic_analytics_objects,
                        vibration_analytics_objects, written, last, hist, stats >>

\* write_to_influx(measurement, point), and the handler returns
StepWrite(t) ==
    LET k == tasks[t]
    IN  /\ k.pc = "write"
        /\ Runs(t)
        /\ written' = k.point
        /\ Goto(t, k, "idle")
        /\ UNCHANGED << config, generic_analytics_objects,
                        vibration_analytics_objects, last, hist, stats >>

\* ------------------------------------------------------- specifications
\* any caller of the detector class: the four operations in any order
Next ==
    \/ \E n \in ConfiguredSensors, t \in Thresholds : SetThreshold(n, t)
    \/ \E n \in ConfiguredSensors : ResetAlgorithm(n)
    \/ \E n \in ConfiguredSensors, v \in Values : CheckIfAnomaly(n, v)
    \/ \E n \in ConfiguredSensors : CalculateAnomalyRatio(n)

\* the global threshold plays no part in direct calls: its default
InitDetector == Init /\ Z_SCORE_THRESHOLD = 2000

Spec == InitDetector /\ [][Next]_vars

\* the application as deployed: detectors are reached through the
\* ingestion endpoint only
NextDispatch == \E n \in SensorNames, v \in SensorValues : sensor_data(n, v)

SpecDispatch == Init /\ [][NextDispatch]_vars

\* both ingestion endpoints in use
NextIngest ==
    \/ \E n \in SensorNames, v \in IngestValues : sensor_data(n, v)
    \/ \E n \in VibrationNames, a \in Axes : vibration_sensor_data(n, a)

SpecIngest == Init /\ [][NextIngest]_vars

\* requests in flight at the same time on both endpoints
NextConcurrent ==
    \/ \E t \in TaskIds, n \in SensorNames, v \in IngestValues :
           AcceptRequest(t, "generic", n, << v >>)
    \/ \E t \in TaskIds, n \in VibrationNames, a \in Axes :
           AcceptRequest(t, "vibration", n, a)
    \/ \E t \in TaskIds : ResumeWithBody(t)
    \/ \E t \in TaskIds : StepThreshold(t)
    \/ \E t \in TaskIds : StepCheck(t)
    \/ \E t \in TaskIds : StepRatio(t)
    \/ \E t \in TaskIds : StepPoint(t)
    \/ \E t \in TaskIds : StepWrite(t)

SpecConcurrent == InitDetector /\ [][NextConcurrent]_vars

\* a caller that evaluates readings of changing level, sets thresholds and
\* resets
NextLevel ==
    \/ \E n \in ConfiguredSensors, t \in LevelThresholds : SetThreshold(n, t)
    \/ \E n \in ConfiguredSensors : ResetAlgorithm(n)
    \/ \E n \in ConfiguredSensors, v \in LevelValues : CheckIfAnomaly(n, v)

SpecLevel == InitDetector /\ [][NextLevel]_vars

\* ----------------------------------------------------------- properties
Objects == DOMAIN generic_analytics_objects
Obj(n) == generic_analytics_objects[n]
\* the object of the latest call, after it and before it
Cur == generic_analytics_objects[last.name]
Pre == last.pre[1]
Complete(d) == Len(d.model_data) = d.model_size
IsAnomalous(d) == Abs(d.z_score) > d.z_score_thresh

\* C1: in every reachable state, whatever the sequence of check_if_anomaly,
\* calculate_anomaly_ratio, threshold and reset calls, the model window
\* holds at most model_size values and the anomaly window at most
\* anomaly_list_size flags.
C1_WindowsBounded ==
    \A n \in Objects :
        /\ Len(Obj(n).model_data) <= Obj(n).model_size
        /\ Len(Obj(n).anomaly_list) <= Obj(n).anomaly_list_size

\* both windows are full and the latest call ran on a full anomaly window
C1_Witness ==
    /\ last.op = "calculate_anomaly_ratio"
    /\ Complete(Pre)
    /\ Len(Pre.anomaly_list) = Pre.anomaly_list_size
    /\ Len(Cur.anomaly_list) = Cur.anomaly_list_size
    /\ Cur.model_size = MaxModelSize

\* C2: within one life-segment (since construction or the latest reset) a
\* detector becomes complete exactly once, by the check_if_anomaly call that
\* appends the model_size-th value, and from then on the window length
\* stays equal to model_size.
C2_ActivatesOnce ==
    \A n \in Objects :
        /\ hist[n].activations <= 1
        /\ Complete(Obj(n)) <=> hist[n].activations = 1
        /\ Complete(Obj(n)) =>
               /\ hist[n].by = "check_if_anomaly"
               /\ hist[n].fromLen = Obj(n).model_size - 1

\* an active detector classified a value within the threshold, its window
\* moved, and it is still active after its single activation
C2_Witness ==
    /\ last.op = "check_if_anomaly"
    /\ last.classified
    /\ Cur.model_data # Pre.model_data
    /\ Complete(Cur)
    /\ hist[last.name].activations = 1

\* C3: a check_if_anomaly call on a complete baseline whose z-score is
\* within the threshold sets anomaly to 0 and turns the window into the old
\* window without its head and with the value at its tail.
C3_NormalSlides ==
    (last.op = "check_if_anomaly" /\ last.classified /\ ~IsAnomalous(Cur))
    => /\ Cur.anomaly = 0
       /\ Cur.model_data = Append(Tail(Pre.model_data), last.arg)
       /\ Len(Cur.model_data) = Len(Pre.model_data)

C3_Witness ==
    /\ last.op = "check_if_anomaly"
    /\ last.classified
    /\ ~IsAnomalous(Cur)
    /\ Pre.anomaly = 1
    /\ Head(Pre.model_data) # last.arg
    /\ Len(Pre.model_data) = MaxModelSize

\* C4: a check_if_anomaly call on a complete baseline whose z-score is
\* beyond the threshold sets anomaly to 1 and leaves the window as it was.
C4_AnomalyLeavesWindow ==
    (last.op = "check_if_anomaly" /\ last.classified /\ IsAnomalous(Cur))
    => /\ Cur.anomaly = 1
       /\ Cur.model_data = Pre.model_data

C4_Witness ==
    /\ last.op = "check_if_anomaly"
    /\ last.classified
    /\ IsAnomalous(Cur)
    /\ Pre.anomaly = 0
    /\ Cur.z_score_thresh = 2000
    /\ Pre.model_data[Len(Pre.model_data)] # last.arg

\* C5 as stated: every value in the model window was classified "not
\* anomaly" when it was admitted.
C5_AllAdmittedClassifiedNormal ==
    \A n \in Objects :
        \A i \in 1..Len(hist[n].tags) : hist[n].tags[i] = "normal"

\* C5, amended: every value in the model window was either appended while
\* the baseline was being built, without classification, or classified
\* "not anomaly" when it was admitted; none was classified "anomaly".
C5_AdmittedUnclassifiedOrNormal ==
    \A n \in Objects :
        /\ Len(hist[n].tags) = Len(Obj(n).model_data)
        /\ \A i \in 1..Len(hist[n].tags) :
               hist[n].tags[i] \in {"unclassified", "normal"}

\* a window holding a value from the build phase next to a classified one,
\* after a value beyond the threshold was turned away
C5_Witness ==
    /\ last.op = "check_if_anomaly"
    /\ last.classified
    /\ IsAnomalous(Cur)
    /\ \E i, j \in 1..Len(hist[last.name].tags) :
           /\ hist[last.name].tags[i] = "unclassified"
           /\ hist[last.name].tags[j] = "normal"

\* C6: a threshold write of 0, made directly or by sensor_data when the
\* global threshold is 0, finishes without an exception and leaves
\* z_score_thresh at 2.0; the sensor_data call then also runs
\* check_if_anomaly and calculate_anomaly_ratio and writes its point.
C6_ZeroThresholdRecovered ==
    /\ (last.op = "z_score_thresh" /\ last.arg = 0)
       => /\ last.raised = "none"
          /\ Cur.z_score_thresh = 2000
    /\ (last.op = "sensor_data" /\ last.name \in Objects /\ Z_SCORE_THRESHOLD = 0)
       => /\ last.raised = "none"
          /\ Cur.z_score_thresh = 2000
          /\ last.ran = <<"z_score_thresh", "check_if_anomaly",
                          "calculate_anomaly_ratio">>
          /\ written = << AnalyticsPoint(last.name, last.arg, Cur) >>

\* C7: no check_if_anomaly call lets an exception out, whatever the
\* configured model_size >= 1, the state of the detector and the value.
C7_EvaluateNeverRaises ==
    last.op = "check_if_anomaly" => last.raised = "none"

\* C8 as stated: the calculate_anomaly_ratio call that fills anomaly_list
\* sets anomaly_ratio to sum(anomaly_list) / anomaly_list_size.
C8_RatioRecomputedWhenWindowFills ==
    (/\ last.op = "calculate_anomaly_ratio"
     /\ Len(Pre.anomaly_list) < Pre.anomaly_list_size
     /\ Len(Cur.anomaly_list) = Cur.anomaly_list_size)
    => Cur.anomaly_ratio =
           RoundDiv(1000 * SeqSum(Cur.anomaly_list), Cur.anomaly_list_size)

\* C8, amended: anomaly_ratio stays at 0.0 through every call made on a
\* window that is not yet full, the call that fills it included; the first
\* call made on a full window, and every later one, sets it to
\* sum(anomaly_list) / anomaly_list_size of the window it leaves.  With
\* anomaly_list_size = 2, flags 1 then 0 give [1] and then [1, 0], both
\* with ratio 0.0.
C8_RatioStaleUntilCallOnFullWindow ==
    /\ \A n \in Objects :
           Len(Obj(n).anomaly_list) < Obj(n).anomaly_list_size
           => Obj(n).anomaly_ratio = 0
    /\ (last.op = "calculate_anomaly_ratio"
        /\ Len(Pre.anomaly_list) < Pre.anomaly_list_size)
       => /\ Cur.anomaly_ratio = Pre.anomaly_ratio
          /\ Cur.anomaly_ratio = 0
    /\ (last.op = "calculate_anomaly_ratio" /\ Complete(Pre)
        /\ Len(Pre.anomaly_list) = Pre.anomaly_list_size)
       => Cur.anomaly_ratio =
              RoundDiv(1000 * SeqSum(Cur.anomaly_list), Cur.anomaly_list_size)

\* the scenario: size 2, the second call brings the window to [1, 0]
C8_Witness ==
    /\ last.op = "calculate_anomaly_ratio"
    /\ Cur.anomaly_list_size = 2
    /\ Pre.anomaly_list = <<1>>
    /\ Cur.anomaly_list = <<1, 0>>
    /\ Cur.anomaly_ratio = 0

\* C9: on a complete baseline, calculate_anomaly_ratio called with a
\* window that is not full appends the current anomaly flag and leaves
\* anomaly_ratio alone; called with a full window it drops the oldest flag,
\* appends the current one and sets anomaly_ratio to the sum of the new
\* window over anomaly_list_size (to three decimals).
C9_RatioUpdate ==
    (last.op = "calculate_anomaly_ratio" /\ Complete(Pre))
    => IF Len(Pre.anomaly_list) < Pre.anomaly_list_size
       THEN /\ Cur.anomaly_list = Append(Pre.anomaly_list, Pre.anomaly)
            /\ Cur.anomaly_ratio = Pre.anomaly_ratio
       ELSE /\ Cur.anomaly_list = Append(Tail(Pre.anomaly_list), Pre.anomaly)
            /\ Cur.anomaly_ratio =
                   RoundDiv(1000 * SeqSum(Cur.anomaly_list),
                            Cur.anomaly_list_size)

\* a call on a full window that changed both the window and the ratio
C9_Witness ==
    /\ last.op = "calculate_anomaly_ratio"
    /\ Complete(Pre)
    /\ Len(Pre.anomaly_list) = Pre.anomaly_list_size
    /\ Cur.anomaly_list # Pre.anomaly_list
    /\ Cur.anomaly_ratio # Pre.anomaly_ratio
    /\ Cur.anomaly_ratio \notin {0, 1000}

\* the number of detectors whose baseline is complete
CompleteCount == Cardinality({n \in Objects : Complete(Obj(n))})

\* C10 as stated: over the dispatched events, as many flags were appended
\* to anomaly_list as check_if_anomaly calls classified a value.
C10_FlagsEqualClassifications ==
    stats.flags = stats.classified

\* C10, amended: over the dispatched events, the flags appended to
\* anomaly_list are one per classifying check_if_anomaly call plus one for
\* the event whose check_if_anomaly appended the model_size-th baseline
\* value (the flag is the anomaly field at that time, 0); an event that
\* leaves the baseline incomplete appends no flag.
C10_FlagsAreClassificationsPlusCompletion ==
    /\ stats.flags = stats.classified + CompleteCount
    /\ (last.op = "sensor_data" /\ last.name \in Objects /\ ~Complete(Cur))
       => /\ Cur.anomaly_list = <<>>
          /\ ~last.classified
    /\ (last.op = "sensor_data" /\ last.name \in Objects
        /\ ~Complete(Pre) /\ Complete(Cur))
       => /\ Cur.anomaly_list = <<0>>
          /\ ~last.classified

\* the completing event and two classifying events have each left a flag
C10_Witness ==
    /\ last.op = "sensor_data"
    /\ last.classified
    /\ stats.classified = 2
    /\ stats.flags = 3

\* the detector the latest request was routed to, after the request
LastObj ==
    IF last.op = "vibration_sensor_data"
    THEN vibration_analytics_objects[last.name]
    ELSE generic_analytics_objects[last.name]

AllCalls == <<"z_score_thresh", "check_if_anomaly", "calculate_anomaly_ratio">>

\* C11: a request for a listed sensor, on either endpoint, writes the global
\* threshold into the detector, then runs check_if_anomaly on the value
\* (the total rms for a vibration sensor), then calculate_anomaly_ratio,
\* and then writes exactly one point whose analytics fields are those of
\* the detector after the three calls.
C11_ListedSensorGetsEnrichedPoint ==
    /\ (last.op = "sensor_data" /\ last.name \in generic_sensors_for_analytics)
       => /\ last.raised = "none"
          /\ last.ran = AllCalls
          /\ LastObj.z_score_thresh = Z_SCORE_THRESHOLD
          /\ written = << AnalyticsPoint(last.name, last.arg, LastObj) >>
    /\ (last.op = "vibration_sensor_data"
        /\ last.name \in vibration_sensors_for_analytics)
       => /\ last.raised = "none"
          /\ last.ran = AllCalls
          /\ LastObj.z_score_thresh = Z_SCORE_THRESHOLD
          /\ \E a \in Axes :
                 /\ TotalRms(a) = last.arg
                 /\ written = << VibrationPoint(last.name, a, LastObj) >>

\* the step is a request on the generic endpoint for the name of last'
GenericRequestStep ==
    stats'.events = stats.events + 1 /\ last'.op = "sensor_data"

VibrationRequestStep ==
    stats'.events = stats.events + 1 /\ last'.op = "vibration_sensor_data"

\* C12: a request on the generic endpoint for a sensor that is not listed
\* writes exactly one point carrying only the value, a request on the
\* vibration endpoint for a sensor that is not listed writes nothing, and
\* in both cases no detector is called and no detector changes.
C12_RoutingAsymmetry ==
    [][ /\ (GenericRequestStep
            /\ last'.name \notin generic_sensors_for_analytics)
           => /\ written' = << [ measurement |-> "GenericSensor",
                                 sensor_name |-> last'.name,
                                 value |-> Round4(1000 * last'.arg) ] >>
              /\ last'.ran = <<>>
              /\ UNCHANGED << generic_analytics_objects,
                              vibration_analytics_objects >>
        /\ (VibrationRequestStep
            /\ last'.name \notin vibration_sensors_for_analytics)
           => /\ written' = <<>>
              /\ last'.ran = <<>>
              /\ UNCHANGED << generic_analytics_objects,
                              vibration_analytics_objects >>
      ]_vars

\* an unlisted vibration request wrote nothing while detectors hold data
C12_Witness ==
    /\ last.op = "vibration_sensor_data"
    /\ last.name \notin vibration_sensors_for_analytics
    /\ last.arg = 5
    /\ written = <<>>
    /\ \E n \in generic_sensors_for_analytics :
           Complete(generic_analytics_objects[n])
    /\ \E n \in vibration_sensors_for_analytics :
           vibration_analytics_objects[n].model_data # <<>>

\* C14: reset_algorithm, in any state, empties both windows, sets
\* anomaly_ratio, anomaly, model_avg, model_std_dev and z_score to zero
\* and keeps model_size, anomaly_list_size, name and z_score_thresh: the
\* object is as constructed, but for the threshold, and its baseline is
\* incomplete.
C14_ResetClearsAllButConfiguration ==
    last.op = "reset_algorithm"
    => /\ last.raised = "none"
       /\ Cur.model_data = <<>>
       /\ Cur.anomaly_list = <<>>
       /\ Cur.anomaly_ratio = 0
       /\ Cur.anomaly = 0
       /\ Cur.model_avg = 0
       /\ Cur.model_std_dev[1] = 0
       /\ Cur.z_score = 0
       /\ Cur.model_size = Pre.model_size
       /\ Cur.anomaly_list_size = Pre.anomaly_list_size
       /\ Cur.name = Pre.name
       /\ Cur.z_score_thresh = Pre.z_score_thresh
       /\ Cur = [NewDetector(Pre.name, Pre.model_size, Pre.anomaly_list_size)
                    EXCEPT !.z_score_thresh = Pre.z_score_thresh]
       /\ ~Complete(Cur)

\* a reset of an active detector with a full anomaly window, a nonzero
\* ratio, nonzero statistics and a configured threshold
C14_Witness ==
    /\ last.op = "reset_algorithm"
    /\ Complete(Pre)
    /\ Len(Pre.anomaly_list) = Pre.anomaly_list_size
    /\ Pre.anomaly_ratio > 0
    /\ Pre.anomaly = 1
    /\ Pre.model_avg # 0
    /\ Pre.z_score # 0
    /\ Pre.z_score_thresh = 2000

\* all values of a window equal v
ConstantWindow(w, v) == \A i \in 1..Len(w) : w[i] = v

\* C15: on a complete baseline of model_size equal values c >= 0,
\* check_if_anomaly(x) sets model_avg to c, model_std_dev to 0.001 and
\* z_score to (|x| - c) / 0.001, for every model_size (with model_size 3
\* and threshold 2.0: 10, 10, 10 then 10 gives 0, then 100 gives 90000).
C15_ConstantBaselineZScore ==
    (/\ last.op = "check_if_anomaly"
     /\ Complete(Pre)
     /\ \E c \in 0..100 : ConstantWindow(Pre.model_data, c))
    => /\ last.raised = "none"
       /\ Cur.model_avg = 1000 * Pre.model_data[1]
       /\ Cur.model_std_dev = <<1, 1000000>>
       /\ Cur.z_score = 1000 * (1000 * Abs(last.arg) - 1000 * Pre.model_data[1])
       /\ Cur.anomaly = IF Abs(Cur.z_score) > Cur.z_score_thresh THEN 1 ELSE 0
       /\ Cur.model_data = IF Cur.anomaly = 1 THEN Pre.model_data
                           ELSE Append(Tail(Pre.model_data), last.arg)

C17_BuildingOnlyAppends ==
    (last.op = "check_if_anomaly" /\ ~Complete(Pre))
    => /\ last.raised = "none"
       /\ Cur = [Pre EXCEPT !.model_data = Append(@, last.arg)]

\* a nonzero value appended to a baseline that stays incomplete
C17_Witness ==
    /\ last.op = "check_if_anomaly"
    /\ ~Complete(Pre)
    /\ Pre.model_data # <<>>
    /\ last.arg # 0
    /\ ~Complete(Cur)
    /\ Cur.z_score_thresh = 2000

\* C18: while the baseline is incomplete, model_avg, model_std_dev,
\* z_score, anomaly and anomaly_ratio are zero and anomaly_list is empty,
\* and calculate_anomaly_ratio changes nothing.
C18_BuildingStatisticsZero ==
    /\ \A n \in Objects :
          ~Complete(Obj(n))
          => /\ Obj(n).model_avg = 0
             /\ Obj(n).model_std_dev[1] = 0
             /\ Obj(n).z_score = 0
             /\ Obj(n).anomaly = 0
             /\ Obj(n).anomaly_list = <<>>
             /\ Obj(n).anomaly_ratio = 0
    /\ (last.op = "calculate_anomaly_ratio" /\ ~Complete(Pre))
       => (last.raised = "none" /\ Cur = Pre)

\* calculate_anomaly_ratio on a baseline one value short of complete, the
\* threshold configured
C18_Witness ==
    /\ last.op = "calculate_anomaly_ratio"
    /\ ~Complete(Pre)
    /\ Pre.model_data # <<>>
    /\ Len(Pre.model_data) = Pre.model_size - 1
    /\ Pre.z_score_thresh = 2000

\* C19: a negative threshold is stored as given, and from then on every
\* check_if_anomaly on a complete baseline flags its value and leaves the
\* window as it was.
C19_NegativeThresholdStalls ==
    /\ (last.op = "z_score_thresh" /\ last.arg < 0)
       => (last.raised = "none" /\ Cur.z_score_thresh = last.arg)
    /\ (last.op = "check_if_anomaly" /\ Complete(Pre) /\ Pre.z_score_thresh < 0)
       => /\ last.raised = "none"
          /\ Cur.anomaly = 1
          /\ Cur.model_data = Pre.model_data

\* C20: on a complete baseline, check_if_anomaly(v) and
\* check_if_anomaly(-v) give the same model_avg, model_std_dev, z_score
\* and anomaly flag; when the value is admitted the windows differ only
\* in their last element, v against -v, the sign kept as given.
C20_SignIgnoredInScore ==
    \A n \in Objects : \A v \in Values :
        Complete(Obj(n))
        => LET a == check_if_anomaly(Obj(n), v)
               b == check_if_anomaly(Obj(n), -v)
           IN  /\ a.raised = b.raised
               /\ a.d.model_avg = b.d.model_avg
               /\ a.d.model_std_dev = b.d.model_std_dev
               /\ a.d.z_score = b.d.z_score
               /\ a.d.anomaly = b.d.anomaly
               /\ a.d.anomaly_list = b.d.anomaly_list
               /\ (a.raised = "none" /\ a.d.anomaly = 0)
                  => /\ a.d.model_data = Append(Tail(Obj(n).model_data), v)
                     /\ b.d.model_data = Append(Tail(Obj(n).model_data), -v)

\* -2 admitted into a window with a nonzero z_score, where 2 would have
\* been admitted with the same score
C20_Witness ==
    /\ last.op = "check_if_anomaly"
    /\ last.classified
    /\ last.arg = -2
    /\ Cur.anomaly = 0
    /\ Cur.z_score # 0
    /\ Cur.model_data[Len(Cur.model_data)] = -2
    /\ check_if_anomaly(Pre, 2).d.z_score = Cur.z_score
    /\ check_if_anomaly(Pre, 2).d.model_data = Append(Tail(Pre.model_data), 2)

\* C13: whatever the interleaving of the requests in flight, the calls of
\* two requests for the same sensor never interleave: from its threshold
\* write to its write of the point, a request finds the detector as its
\* own calls left it, starting from the detector it found, and its point
\* carries the fields those calls produced; no other request for that
\* sensor is between its first call and its write at the same time.
C13_SensorBlockUninterrupted ==
    \A t \in TaskIds :
        LET k == tasks[t]
            d0 == k.entry[1]
            r1 == z_score_thresh_setter(d0, Z_SCORE_THRESHOLD)
            r2 == check_if_anomaly(r1.d, ValueOf(k))
            r3 == calculate_anomaly_ratio(r2.d)
        IN  (k.pc \in Block /\ k.entry # <<>>)
            => /\ \A u \in TaskIds \ {t} :
                     ~ /\ tasks[u].pc \in Block
                       /\ tasks[u].kind = k.kind
                       /\ tasks[u].name = k.name
               /\ k.pc = "thresh" => Detector(k) = d0
               /\ k.pc = "check" => Detector(k) = r1.d
               /\ k.pc = "ratio" => Detector(k) = r2.d
               /\ k.pc \in {"point", "write"} => Detector(k) = r3.d
               /\ k.pc = "write" => k.point = << PointOf(k, r3.d) >>

\* a request about to write the point of a classification that evicted
\* from a full window, while another request for the same listed sensor is
\* in flight, waiting for its body
C13_Witness ==
    \E t \in TaskIds, u \in TaskIds :
        /\ t # u
        /\ tasks[t].pc = "write"
        /\ tasks[t].entry # <<>>
        /\ Complete(tasks[t].entry[1])
        /\ Detector(tasks[t]).model_data # tasks[t].entry[1].model_data
        /\ Detector(tasks[t]).anomaly_list # <<>>
        /\ tasks[u].pc = "json"
        /\ tasks[u].kind = tasks[t].kind
        /\ tasks[u].name = tasks[t].name

\* a complete baseline of equal values c >= 0 under a threshold t > 0
LevelBaseline(d) ==
    /\ Complete(d)
    /\ ConstantWindow(d.model_data, d.model_data[1])
    /\ d.model_data[1] >= 0
    /\ d.z_score_thresh > 0

\* on such a baseline, | |v| - c | > 0.001 * t
BeyondTolerance(d, v) ==
    1000000 * Abs(Abs(v) - d.model_data[1]) > d.z_score_thresh

C22_FlagsBinaryRatioFraction ==
    \A n \in Objects :
        LET d == Obj(n)
        IN  /\ d.anomaly \in {0, 1}
            /\ \A i \in 1..Len(d.anomaly_list) : d.anomaly_list[i] \in {0, 1}
            /\ 0 <= d.anomaly_ratio
            /\ d.anomaly_ratio <= 1000
            /\ \E k \in 0..d.anomaly_list_size :
                  d.anomaly_ratio = RoundDiv(1000 * k, d.anomaly_list_size)

\* a ratio strictly between 0 and 1, just computed over a full window of
\* mixed flags
C22_Witness ==
    /\ last.op = "calculate_anomaly_ratio"
    /\ Complete(Pre)
    /\ Len(Cur.anomaly_list) = Cur.anomaly_list_size
    /\ \E i \in 1..Len(Cur.anomaly_list) : Cur.anomaly_list[i] = 1
    /\ \E i \in 1..Len(Cur.anomaly_list) : Cur.anomaly_list[i] = 0
    /\ Cur.anomaly_ratio # Pre.anomaly_ratio
    /\ Cur.anomaly_ratio > 0
    /\ Cur.anomaly_ratio < 1000

====
